---- MODULE Spec2Model ----
(***************************************************************************)
(* Portfolio & Risk Analysis API (src/api.py): holdings ingestion from CSV *)
(* and CAS PDF text, the persisted current portfolio (sample.csv), the     *)
(* analytics read handlers and the snapshot canonicalizer.                 *)
(*                                                                         *)
(* Text is modelled at character level: a line is a tuple of one-character *)
(* strings, a page is a tuple of lines (page.extract_text().split('\n')),  *)
(* a document is a tuple of pages.  A float is an exact decimal <<m, e>>   *)
(* (m * 10^-e, normalised), or the 1-tuple <<"nan">>.                      *)
(***************************************************************************)
EXTENDS Integers, Sequences, FiniteSets, TLC

\* ------------------------------------------------------------------------
\* Bounds of the model (not program constants)
\* ------------------------------------------------------------------------
MaxPages == 2
MaxLines == 2
MaxRows == 2
MaxPriceRows == 3
MaxTime == 2

\* ------------------------------------------------------------------------
\* Characters (Python str methods and the re character classes, on ASCII)
\* ------------------------------------------------------------------------
UpperChars ==
    {"A","B","C","D","E","F","G","H","I","J","K","L","M",
     "N","O","P","Q","R","S","T","U","V","W","X","Y","Z"}

LowerChars ==
    {"a","b","c","d","e","f","g","h","i","j","k","l","m",
     "n","o","p","q","r","s","t","u","v","w","x","y","z"}

DigitChars == {"0","1","2","3","4","5","6","7","8","9"}

SpaceChars == {" ", "\t"}

\* str.lower() on one character
LowerOf(c) ==
    CASE c = "A" -> "a" [] c = "B" -> "b" [] c = "C" -> "c" [] c = "D" -> "d"
      [] c = "E" -> "e" [] c = "F" -> "f" [] c = "G" -> "g" [] c = "H" -> "h"
      [] c = "I" -> "i" [] c = "J" -> "j" [] c = "K" -> "k" [] c = "L" -> "l"
      [] c = "M" -> "m" [] c = "N" -> "n" [] c = "O" -> "o" [] c = "P" -> "p"
      [] c = "Q" -> "q" [] c = "R" -> "r" [] c = "S" -> "s" [] c = "T" -> "t"
      [] c = "U" -> "u" [] c = "V" -> "v" [] c = "W" -> "w" [] c = "X" -> "x"
      [] c = "Y" -> "y" [] c = "Z" -> "z" [] OTHER -> c

\* line.lower()
Lower(s) == [i \in 1..Len(s) |-> LowerOf(s[i])]

DigitVal(c) ==
    CASE c = "0" -> 0 [] c = "1" -> 1 [] c = "2" -> 2 [] c = "3" -> 3
      [] c = "4" -> 4 [] c = "5" -> 5 [] c = "6" -> 6 [] c = "7" -> 7
      [] c = "8" -> 8 [] c = "9" -> 9

\* needle in haystack (Python's substring test)
Contains(s, w) ==
    \E i \in 1..(Len(s) - Len(w) + 1) : SubSeq(s, i, i + Len(w) - 1) = w

\* s.strip(): leading and trailing whitespace removed
RECURSIVE LStrip(_)
LStrip(s) ==
    IF s # <<>> /\ Head(s) \in SpaceChars THEN LStrip(Tail(s)) ELSE s

RECURSIVE RStrip(_)
RStrip(s) ==
    IF s # <<>> /\ s[Len(s)] \in SpaceChars
    THEN RStrip(SubSeq(s, 1, Len(s) - 1)) ELSE s

Strip(s) == RStrip(LStrip(s))

\* s.isalpha(): non-empty and every character a letter
IsAlpha(s) ==
    /\ s # <<>>
    /\ \A i \in 1..Len(s) : s[i] \in UpperChars \cup LowerChars

\* line.split('|'): the fields between the separators, at least one field
RECURSIVE SplitFrom(_, _, _)
SplitFrom(s, i, cur) ==
    IF i > Len(s) THEN <<cur>>
    ELSE IF s[i] = "|" THEN <<cur>> \o SplitFrom(s, i + 1, <<>>)
    ELSE SplitFrom(s, i + 1, Append(cur, s[i]))

Split(s) == SplitFrom(s, 1, <<>>)

\* length of the longest run of characters of class cls starting at s[i]
RECURSIVE Run(_, _, _)
Run(s, i, cls) ==
    IF i <= Len(s) /\ s[i] \in cls THEN 1 + Run(s, i + 1, cls) ELSE 0

\* ------------------------------------------------------------------------
\* Floats as exact decimals
\* ------------------------------------------------------------------------
\* A float is a decimal <<m, e>>; NaN is the 1-tuple <<"nan">>; a raised
\* ValueError is the empty tuple.
NaN == <<"nan">>

ValueError == <<>>

RECURSIVE Pow10(_)
Pow10(n) == IF n = 0 THEN 1 ELSE 10 * Pow10(n - 1)

RECURSIVE DecNorm(_, _)
DecNorm(m, e) ==
    IF e > 0 /\ m % 10 = 0 THEN DecNorm(m \div 10, e - 1) ELSE <<m, e>>

IsNaN(x) == Len(x) = 1

\* x * y on floats (NaN propagates)
FMul(x, y) ==
    IF IsNaN(x) \/ IsNaN(y) THEN NaN
    ELSE DecNorm(x[1] * y[1], x[2] + y[2])

\* x + y on floats
FAdd(x, y) ==
    IF IsNaN(x) \/ IsNaN(y) THEN NaN
    ELSE LET e == IF x[2] > y[2] THEN x[2] ELSE y[2]
         IN  DecNorm(x[1] * Pow10(e - x[2]) + y[1] * Pow10(e - y[2]), e)

FZero == <<0, 0>>

FIsZero(x) == ~IsNaN(x) /\ x[1] = 0

\* digits as a natural number
RECURSIVE DigitsVal(_)
DigitsVal(ds) ==
    IF ds = <<>> THEN 0
    ELSE 10 * DigitsVal(SubSeq(ds, 1, Len(ds) - 1)) + DigitVal(ds[Len(ds)])

\* The decimal literal with a integer digits, then (dotted) a point and b
\* fraction digits, when that is all of s; otherwise ValueError
LiteralOf(s, a, dotted, b) ==
    IF a + (IF dotted THEN 1 + b ELSE 0) # Len(s) \/ a + b = 0 THEN ValueError
    ELSE DecNorm(DigitsVal(SubSeq(s, 1, a)) * Pow10(b)
                   + DigitsVal(SubSeq(s, a + 2, a + 1 + b)), b)

LiteralFrom(s, a) ==
    IF a < Len(s) /\ s[a + 1] = "."
    THEN LiteralOf(s, a, TRUE, Run(s, a + 2, DigitChars))
    ELSE LiteralOf(s, a, FALSE, 0)

\* An unsigned decimal literal  \d+(\.\d*)? | \.\d+  as a float, or ValueError
UnsignedLiteral(s) == LiteralFrom(s, Run(s, 1, DigitChars))

Negated(v) == IF v = ValueError THEN ValueError ELSE <<0 - v[1], v[2]>>

FloatOfBody(negative, body) ==
    IF Lower(body) = <<"n", "a", "n">> THEN NaN
    ELSE IF negative THEN Negated(UnsignedLiteral(body))
    ELSE UnsignedLiteral(body)

FloatOfStripped(s) ==
    IF s # <<>> /\ Head(s) \in {"+", "-"}
    THEN FloatOfBody(Head(s) = "-", Tail(s))
    ELSE FloatOfBody(FALSE, s)

\* float(text): surrounding whitespace stripped, optional sign, a decimal
\* literal or nan; anything else raises ValueError.  (Exponents, infinities
\* and digit-group underscores are outside the modelled alphabet.)
Float(text) == FloatOfStripped(Strip(text))

\* ------------------------------------------------------------------------
\* parse_cas_pdf: the two line patterns
\* ------------------------------------------------------------------------
\* d digits at s[j], then a point and f digits if f > 0
NumLenOf(d, f) == IF d = 0 THEN 0 ELSE IF f > 0 THEN d + 1 + f ELSE d

NumLenFrom(s, j, d) ==
    NumLenOf(d, IF d > 0 /\ j + d <= Len(s) /\ s[j + d] = "."
                THEN Run(s, j + d + 1, DigitChars) ELSE 0)

\* Length of a number \d+(?:\.\d+)? starting at s[j] (greedy), 0 if none
NumLen(s, j) == NumLenFrom(s, j, Run(s, j, DigitChars))

\* The match of  ([A-Z]{2,5})\s+(\d+(?:\.\d+)?)\s+(\d+(?:\.\d+)?)  that
\* starts exactly at s[i]: <<symbol, qty, price>> group texts, or <<>>.
\* Every quantifier but the last is followed by a class disjoint from its
\* own, so backtracking never finds a match the greedy scan misses: the
\* letters are the whole run (at most 5), each gap the whole whitespace run,
\* the quantity the longest number, which whitespace must follow.
\* i..i+k-1 letters, j..j+n1-1 quantity, j2.. price of length n2
MatchPrice(s, i, k, j, n1, j2, n2) ==
    IF n2 >= 1
    THEN <<SubSeq(s, i, i + k - 1), SubSeq(s, j, j + n1 - 1),
           SubSeq(s, j2, j2 + n2 - 1)>>
    ELSE <<>>

MatchGap2(s, i, k, j, n1, w2) ==
    IF w2 >= 1
    THEN MatchPrice(s, i, k, j, n1, j + n1 + w2, NumLen(s, j + n1 + w2))
    ELSE <<>>

MatchQty(s, i, k, j, n1) ==
    IF n1 >= 1
    THEN MatchGap2(s, i, k, j, n1, Run(s, j + n1, SpaceChars))
    ELSE <<>>

MatchGap1(s, i, k, w1) ==
    IF w1 >= 1 THEN MatchQty(s, i, k, i + k + w1, NumLen(s, i + k + w1))
    ELSE <<>>

MatchLetters(s, i, k) ==
    IF k >= 2 /\ k <= 5 THEN MatchGap1(s, i, k, Run(s, i + k, SpaceChars))
    ELSE <<>>

Match1At(s, i) == MatchLetters(s, i, Run(s, i, UpperChars))

\* re.search(pattern, line): the match at the leftmost position that has one
RECURSIVE SearchFrom(_, _)
SearchOr(s, i, m) == IF m # <<>> THEN m ELSE SearchFrom(s, i + 1)

SearchFrom(s, i) ==
    IF i > Len(s) THEN <<>> ELSE SearchOr(s, i, Match1At(s, i))

Search1(s) == SearchFrom(s, 1)

Holding(sym, q, p) == [symbol |-> sym, quantity |-> q, price |-> p]

GroupsHolding(m) ==
    IF m = <<>> THEN <<>> ELSE <<Holding(m[1], Float(m[2]), Float(m[3]))>>

\* Pattern 1 (api.py 99-107 and 133-140): the holdings one line adds
Pattern1(line) == GroupsHolding(Search1(line))

\* api.py 114-124: float() of fields 2 and 3, then the symbol test
PartsHolding(symbol, qty, price) ==
    IF qty = ValueError \/ price = ValueError THEN <<>>
    ELSE IF IsAlpha(symbol) /\ Len(symbol) <= 5
    THEN <<Holding(symbol, qty, price)>>
    ELSE <<>>

PartsOf(parts) ==
    IF Len(parts) >= 3
    THEN PartsHolding(Strip(parts[1]), Float(parts[2]), Float(parts[3]))
    ELSE <<>>

\* Pattern 2 (api.py 111-124): pipe-separated fields
Pattern2(line) == PartsOf(Split(line))

\* The header and blank-line filter of Strategy A (api.py 94)
Skipped(line) ==
    \/ Strip(line) = <<>>
    \/ Contains(Lower(line), <<"s","y","m","b","o","l">>)
    \/ Contains(Lower(line), <<"i","s","i","n">>)

FirstOr(p1, line) == IF p1 # <<>> THEN p1 ELSE Pattern2(line)

\* The other order of the two patterns: the pipe-separated fields first
LineAPipeFirst(line) ==
    IF Skipped(line) THEN <<>>
    ELSE IF Pattern2(line) # <<>> THEN Pattern2(line)
    ELSE Pattern1(line)

\* One iteration of the inner loop of Strategy A (api.py 92-124)
LineA(line) ==
    IF Skipped(line) THEN <<>> ELSE FirstOr(Pattern1(line), line)

\* One iteration of the inner loop of Strategy B (api.py 132-140)
LineB(line) == Pattern1(line)

RECURSIVE PageA(_)
PageA(lines) ==
    IF lines = <<>> THEN <<>> ELSE LineA(Head(lines)) \o PageA(Tail(lines))

RECURSIVE PageB(_)
PageB(lines) ==
    IF lines = <<>> THEN <<>> ELSE LineB(Head(lines)) \o PageB(Tail(lines))

\* Strategy A: pdfplumber text, page by page (api.py 79-124)
RECURSIVE StrategyA(_)
StrategyA(pages) ==
    IF pages = <<>> THEN <<>>
    ELSE PageA(Head(pages)) \o StrategyA(Tail(pages))

\* Strategy B: PyPDF2 text, page by page (api.py 128-140)
RECURSIVE StrategyB(_)
StrategyB(pages) ==
    IF pages = <<>> THEN <<>>
    ELSE PageB(Head(pages)) \o StrategyB(Tail(pages))

\* Lines 142-143: an exception of either backend ends the parse
ParseFailed(ranB) ==
    [ok |-> FALSE, error |-> "Failed to parse PDF", ranA |-> TRUE,
     ranB |-> ranB, holdings |-> <<>>]

\* Lines 145-150 on the rows the strategies gathered
ParseOutcome(ranB, holdings) ==
    IF holdings = <<>>
    THEN [ok |-> FALSE, error |-> "No holdings found in PDF",
          ranA |-> TRUE, ranB |-> ranB, holdings |-> <<>>]
    ELSE [ok |-> TRUE, error |-> "",
          ranA |-> TRUE, ranB |-> ranB, holdings |-> holdings]

\* A chain without the guard of line 127: Strategy B always runs and adds
\* to the list
FallbackUnguarded(p, rowsA) ==
    IF p.unreadable = "B" THEN ParseFailed(TRUE)
    ELSE ParseOutcome(TRUE, rowsA \o StrategyB(p.textB))

\* Line 127: PyPDF2 is opened if Strategy A left the list empty, and
\* Strategy B adds to the same list
Fallback(p, rowsA) ==
    IF rowsA # <<>> THEN ParseOutcome(FALSE, rowsA)
    ELSE IF p.unreadable = "B" THEN ParseFailed(TRUE)
    ELSE ParseOutcome(TRUE, rowsA \o StrategyB(p.textB))

\* parse_cas_pdf(pdf_file).  p = [unreadable, textA, textB]: the backend
\* that raises on the document ("A" pdfplumber, "B" PyPDF2, "no" neither)
\* and the page texts the two backends extract.  The result records which
\* strategies ran.
parse_cas_pdf(p) ==
    IF p.unreadable = "A" THEN ParseFailed(FALSE)
    ELSE Fallback(p, StrategyA(p.textA))

\* ------------------------------------------------------------------------
\* DataFrames, sample.csv and load_portfolio
\* ------------------------------------------------------------------------
\* A DataFrame is [cols, rows]; a row is [symbol, quantity, price,
\* investment]; a cell is a symbol text, a float, NaN, or (in a column
\* pandas read as object) the non-numeric text.  The quantity and price
\* columns are float64, as parse_cas_pdf builds them and as read_csv reads
\* the floats to_csv wrote.
Text == <<"a", "b", "c">>

IsText(c) == Len(c) = 3

Row(sym, q, p, inv) ==
    [symbol |-> sym, quantity |-> q, price |-> p, investment |-> inv]

\* df["quantity"] * df["price"], row by row
WithInvestment(rows) ==
    [i \in 1..Len(rows) |->
        Row(rows[i].symbol, rows[i].quantity, rows[i].price,
            FMul(rows[i].quantity, rows[i].price))]

\* Series.sum(): NaN cells are skipped
RECURSIVE FSum(_)
FSum(cells) ==
    IF cells = <<>> THEN FZero
    ELSE IF IsNaN(Head(cells)) THEN FSum(Tail(cells))
    ELSE FAdd(Head(cells), FSum(Tail(cells)))

Investments(rows) == [i \in 1..Len(rows) |-> rows[i].investment]

Symbols(rows) == [i \in 1..Len(rows) |-> rows[i].symbol]

\* df[["symbol", "quantity", "price"]].to_dict(orient="records")
Records(rows) ==
    [i \in 1..Len(rows) |->
        Holding(rows[i].symbol, rows[i].quantity, rows[i].price)]

\* The header line of sample.csv
Header == <<"symbol", "quantity", "price">>

\* Symbol texts pandas.read_csv reads as missing (its default na_values)
NaTokens ==
    {<<>>, <<"N","A">>, <<"N","U","L","L">>, <<"N","a","N">>, <<"n","a","n">>,
     <<"n","u","l","l">>}

DigitChar(d) ==
    CASE d = 0 -> "0" [] d = 1 -> "1" [] d = 2 -> "2" [] d = 3 -> "3"
      [] d = 4 -> "4" [] d = 5 -> "5" [] d = 6 -> "6" [] d = 7 -> "7"
      [] d = 8 -> "8" [] d = 9 -> "9"

\* the decimal digits of a natural number
RECURSIVE NatChars(_)
NatChars(n) ==
    IF n < 10 THEN <<DigitChar(n)>>
    ELSE Append(NatChars(n \div 10), DigitChar(n % 10))

RECURSIVE ZeroPad(_, _)
ZeroPad(cs, width) ==
    IF Len(cs) >= width THEN cs ELSE ZeroPad(<<"0">> \o cs, width)

\* a * 10^-e >= 0 in positional notation, with at least one fraction digit
Positional(a, e) ==
    NatChars(a \div Pow10(e)) \o <<".">>
    \o (IF e = 0 THEN <<"0">> ELSE ZeroPad(NatChars(a % Pow10(e)), e))

\* repr(x) of a finite float in the positional range: what to_csv and
\* json.dumps write for it
FloatRepr(x) ==
    IF x[1] < 0 THEN <<"-">> \o Positional(0 - x[1], x[2])
    ELSE Positional(x[1], x[2])

\* DataFrame.to_csv of one cell: a missing value is written as the empty
\* field, a float as its repr
ToCsvSym(v) == IF v = NaN THEN <<>> ELSE v

ToCsvNum(v) == IF IsNaN(v) THEN <<>> ELSE FloatRepr(v)

\* pandas.read_csv of one field of a text column and of a float column
ReadSym(c) == IF c \in NaTokens THEN NaN ELSE c

ReadNum(c) == IF c = <<>> THEN NaN ELSE Float(c)

\* df[["symbol","quantity","price"]].to_csv("sample.csv", index=False):
\* the lines of the file, the header first
ToCsv(rows) ==
    <<Header>> \o
    [i \in 1..Len(rows) |->
        <<ToCsvSym(rows[i].symbol), ToCsvNum(rows[i].quantity),
          ToCsvNum(rows[i].price)>>]

\* load_portfolio(): pd.read_csv raises EmptyDataError on a file with no
\* header line; otherwise the data lines present, with investment computed
load_portfolio(f) ==
    IF f = <<>> THEN [ok |-> FALSE, rows |-> <<>>]
    ELSE [ok |-> TRUE,
          rows |-> WithInvestment(
              [i \in 1..(Len(f) - 1) |->
                  Row(ReadSym(f[i + 1][1]), ReadNum(f[i + 1][2]),
                      ReadNum(f[i + 1][3]), NaN)])]

\* ------------------------------------------------------------------------
\* upload_portfolio
\* ------------------------------------------------------------------------
NoResp ==
    [status |-> "none", error |-> "", total_investment |-> FZero,
     num_holdings |-> 0, assets |-> <<>>]

Failed(msg) ==
    [status |-> "failed", error |-> msg, total_investment |-> FZero,
     num_holdings |-> 0, assets |-> <<>>]

\* Lines 148-150 and 249: the DataFrame of the parsed holdings, or the
\* ValueError
PdfFrame(r) ==
    IF r.ok
    THEN [ok |-> TRUE, error |-> "",
          cols |-> {"symbol", "quantity", "price", "investment"},
          rows |-> WithInvestment(
              [i \in 1..Len(r.holdings) |->
                  Row(r.holdings[i].symbol, r.holdings[i].quantity,
                      r.holdings[i].price, NaN)])]
    ELSE [ok |-> FALSE, error |-> r.error, cols |-> {}, rows |-> <<>>]

\* Lines 243-255: the DataFrame the request yields, or the early outcome.
\* req = [kind, cols, rows, unreadable, pdf]
UploadFrame(req) ==
    IF req.kind = "csv"
    THEN IF req.unreadable
         THEN [ok |-> FALSE, error |-> "read_csv", cols |-> {}, rows |-> <<>>]
         ELSE IF "investment" \notin req.cols
         THEN IF {"quantity", "price"} \subseteq req.cols
              THEN [ok |-> TRUE, error |-> "",
                    cols |-> req.cols \cup {"investment"},
                    rows |-> WithInvestment(req.rows)]
              ELSE [ok |-> FALSE, error |-> "KeyError", cols |-> {},
                    rows |-> <<>>]
         ELSE [ok |-> TRUE, error |-> "", cols |-> req.cols,
               rows |-> req.rows]
    ELSE IF req.kind = "pdf"
    THEN PdfFrame(parse_cas_pdf(req.pdf))
    ELSE [ok |-> FALSE, error |-> "Unsupported file type", cols |-> {},
          rows |-> <<>>]

\* Line 258: the column selection raises KeyError unless all three columns
\* are there; only then is sample.csv opened for writing
CanSave(df) == df.ok /\ {"symbol", "quantity", "price"} \subseteq df.cols

\* Lines 260-266, evaluated after the file is written: float(sum) raises on
\* an investment column that holds text
UploadResponse(df) ==
    IF \E i \in 1..Len(df.rows) : IsText(df.rows[i].investment)
    THEN Failed("could not convert string to float")
    ELSE [status |-> "success", error |-> "",
          total_investment |-> FSum(Investments(df.rows)),
          num_holdings |-> Len(df.rows),
          assets |-> Records(df.rows)]

\* ------------------------------------------------------------------------
\* portfolio_summary and portfolio_risk
\* ------------------------------------------------------------------------
\* x / y on floats, as numpy divides: 0/0 is NaN, x/0 is infinite, no
\* exception is raised.  A quotient is kept as the fraction n/d.
FDiv(x, y) ==
    IF IsNaN(x) \/ IsNaN(y) THEN [w |-> "nan"]
    ELSE IF y[1] = 0 THEN (IF x[1] = 0 THEN [w |-> "nan"] ELSE [w |-> "inf"])
    ELSE LET e == IF x[2] > y[2] THEN x[2] ELSE y[2]
         IN  [w |-> "num", n |-> x[1] * Pow10(e - x[2]),
              d |-> y[1] * Pow10(e - y[2])]

Raised(err) == [status |-> "exception", error |-> err, body |-> <<>>]

Returned(b) == [status |-> "ok", error |-> "", body |-> b]

\* portfolio_summary() on what load_portfolio() gave it
portfolio_summary(df) ==
    IF ~df.ok THEN Raised("EmptyDataError")
    ELSE LET total_value == FSum(Investments(df.rows))
         IN  Returned(
               [total_value |-> total_value,
                allocation |->
                  [i \in 1..Len(df.rows) |->
                      [symbol |-> df.rows[i].symbol,
                       weight |-> FDiv(df.rows[i].investment, total_value)]]])

\* fetch_prices(symbols): the provider call raises, or yields a matrix of
\* n complete rows.  fetch = [ok, n]
FetchOutcomes ==
    {[ok |-> FALSE, n |-> 0]} \cup [ok : {TRUE}, n : 0..MaxPriceRows]

\* portfolio_risk() on what load_portfolio() and fetch_prices() gave it.
\* A metric is "num" (finite) or "nan".  numpy.percentile of an empty series
\* returns NaN or raises IndexError with the numpy version: emptyRaises.
portfolio_risk(df, fetch, emptyRaises) ==
    IF ~df.ok THEN Raised("EmptyDataError")
    ELSE IF ~fetch.ok THEN Raised("fetch_prices")
    ELSE LET r == IF fetch.n <= 1 THEN 0 ELSE fetch.n - 1
             total == FSum(Investments(df.rows))
             syms == Symbols(df.rows)
             dup == \E i, j \in 1..Len(syms) : i < j /\ syms[i] = syms[j]
             \* weights.reindex(...).fillna(0): NaN weights become 0
             infinite == \E i \in 1..Len(df.rows) :
                             FDiv(df.rows[i].investment, total).w = "inf"
             fin(k) == IF r >= k /\ ~infinite THEN "num" ELSE "nan"
         IN  IF dup THEN Raised("cannot reindex on duplicate labels")
             ELSE IF r = 0 /\ emptyRaises THEN Raised("IndexError")
             ELSE Returned(
                    [volatility |-> fin(2),
                     value_at_risk_95 |-> fin(1),
                     max_drawdown |-> fin(1),
                     sharpe_ratio |-> "num",
                     annual_return |-> fin(1)])

\* ------------------------------------------------------------------------
\* portfolio_snapshot and the ledger submission
\* ------------------------------------------------------------------------
RECURSIVE Join(_)
Join(chars) == IF chars = <<>> THEN "" ELSE Head(chars) \o Join(Tail(chars))

\* json.dumps of a float: NaN, or float.__repr__
FormatFloat(x) == IF IsNaN(x) THEN "NaN" ELSE Join(FloatRepr(x))

\* json.dumps of a symbol cell: a quoted string, or NaN for a missing one
FormatSym(v) == IF v = NaN THEN "NaN" ELSE "\"" \o Join(v) \o "\""

\* json.dumps(record, sort_keys=True): price, quantity, symbol
FormatRecord(h) ==
    "{\"price\": " \o FormatFloat(h.price)
    \o ", \"quantity\": " \o FormatFloat(h.quantity)
    \o ", \"symbol\": " \o FormatSym(h.symbol) \o "}"

RECURSIVE FormatRecords(_)
FormatRecords(hs) ==
    IF hs = <<>> THEN ""
    ELSE FormatRecord(Head(hs))
         \o (IF Len(hs) > 1 THEN ", " ELSE "") \o FormatRecords(Tail(hs))

\* datetime.utcnow().isoformat() + "Z" of the clock reading t
FormatTime(t) == ToString(t) \o "Z"

\* json.dumps(portfolio_data, sort_keys=True): holdings, timestamp,
\* total_value
SnapshotData(rows, t) ==
    "{\"holdings\": [" \o FormatRecords(Records(rows))
    \o "], \"timestamp\": \"" \o FormatTime(t)
    \o "\", \"total_value\": " \o FormatFloat(FSum(Investments(rows))) \o "}"

\* hashlib.sha256(...).hexdigest(), taken as collision-free
sha256(str) == <<"sha256", str>>

\* portfolio_snapshot() on the rows load_portfolio() gave it, at time t
portfolio_snapshot(rows, t) ==
    [snapshot_hash |-> sha256(SnapshotData(rows, t)),
     timestamp |-> FormatTime(t),
     total_value |-> FSum(Investments(rows)),
     num_holdings |-> Len(rows),
     holdings |-> Symbols(rows),
     note_field |-> SnapshotData(rows, t)]

\* submit_to_algorand(snapshot_hash, portfolio_data): creds is whether
\* ALGORAND_PRIVATE_KEY and ALGORAND_ADDRESS are set, ledger is the outcome
\* of the node calls
submit_to_algorand(snapshot_hash, creds, ledger) ==
    IF ~creds
    THEN [status |-> "simulation", simulated_tx_id |-> <<"SIM", snapshot_hash>>,
          tx_id |-> <<>>]
    ELSE IF ledger = "ok"
    THEN [status |-> "success", simulated_tx_id |-> <<>>, tx_id |-> <<"TX">>]
    ELSE [status |-> "error", simulated_tx_id |-> <<>>, tx_id |-> <<>>]

\* ------------------------------------------------------------------------
\* Inputs
\* ------------------------------------------------------------------------
AAPL == <<"A","A","P","L">>

MSFT == <<"M","S","F","T">>

\* Statement lines in the formats of api.py 86-89 and their near misses
LineCatalogue ==
    {
     <<"A","A","P","L"," "," ","1","0"," ","1","8","0",".","5","0">>,
     <<"M","S","F","T"," ","|"," ","5"," ","|"," ","4","2","0",".","0","0">>,
     <<"S","y","m","b","o","l"," ","Q","u","a","n","t","i","t","y"," ","P","r","i","c","e">>,
     <<>>,
     <<" "," ">>,
     <<"I","S","I","N"," ","A","B"," ","1"," ","2">>,
     <<"m","s","f","t"," ","|"," ","5"," ","|"," ","4">>,
     <<"G","O","O","G","L","E"," ","7"," ","3">>,
     <<"X","|","5","|","6","|","A","B"," ","1"," ","2">>,
     <<"A"," ","|"," ","1"," ","|"," ","2">>,
     <<"A","B","C","D","E","F"," ","|"," ","1"," ","|"," ","2">>,
     <<"A","B"," ","|"," ","x"," ","|"," ","2">>,
     <<"A","B"," ","|"," ","1">>,
     <<"a","b"," ","|"," ","-","5"," ","|"," ","2">>,
     <<"A","1"," ","|"," ","1"," ","|"," ","2">>,
     <<"A","B"," ","1",".","5"," ","2">>,
     <<"A","B"," ","1","."," ","2">>,
     <<"N","A"," ","|"," ","n","a","n"," ","|"," ","1">>,
     <<"n","o"," ","h","o","l","d","i","n","g","s">>,
     <<"|"," ","1"," ","|"," ","2">>,
     <<"A","B"," ","1",".","5",".","6"," ","7"," ","8">>,
     <<"A","B","\t","3"," ","4",".","2","5","x">>,
     <<"A"," ","B","C"," ","1"," ","2",".">>,
     <<"a","b"," ","1"," ","2">>,
     <<"A","B"," ","1"," ","2"," ","C","D"," ","3"," ","4">>
    }

\* Two short lines, one per pattern, for multi-page documents
OrderLines ==
    {<<"A","B"," ","1"," ","2">>, <<"c","d","|","3","|","4">>}

SeqsUpTo(S, n) == UNION {[1..k -> S] : k \in 0..n}

\* Page texts as pdfplumber extracts them
TextsA ==
    {<<<<l>>>> : l \in LineCatalogue}
    \cup SeqsUpTo(SeqsUpTo(OrderLines, MaxLines), MaxPages)

\* Page texts as PyPDF2 extracts them
TextsB ==
    {<<>>,
     << <<<<"E","F"," ","5"," ","6">>>> >>,
     << <<<<"M","S","F","T"," ","|"," ","5"," ","|"," ","4">>>> >>,
     << <<<<"I","S","I","N"," ","A","B"," ","1"," ","2">>>>,
        <<<<"x">>, <<"E","F"," ","5"," ","6">>>> >>}

\* The documents handed to parse_cas_pdf: the texts of a backend that
\* raises are never extracted
Pdfs ==
    [unreadable : {"no"}, textA : TextsA, textB : TextsB]
    \cup [unreadable : {"B"}, textA : TextsA, textB : {<<>>}]
    \cup [unreadable : {"A"}, textA : {<<>>}, textB : {<<>>}]

NoPdf == [unreadable |-> "no", textA |-> <<>>, textB |-> <<>>]

\* The PDFs the upload handler is driven with
SamplePdfs ==
    {[unreadable |-> "A", textA |-> <<>>, textB |-> <<>>],
     [unreadable |-> "no", textA |-> <<<<<<"x">>>>>>, textB |-> <<>>],
     [unreadable |-> "no",
      textA |-> << <<<<"A","A","P","L"," ","1","0"," ","1","8","0",".","5","0">>,
                     <<"m","s","f","t"," ","|"," ","-","5"," ","|"," ","4">>>> >>,
      textB |-> <<>>],
     [unreadable |-> "no", textA |-> <<<<>>>>,
      textB |-> << <<<<"E","F"," ","0"," ","6">>>> >>]}

\* The rows of uploaded CSV files, as pandas.read_csv yields them
CsvRows ==
    {Row(AAPL, <<10, 0>>, <<1805, 1>>, <<7, 0>>),
     Row(MSFT, <<0, 0>>, <<420, 0>>, Text),
     Row(NaN, <<-5, 0>>, NaN, <<0, 0>>)}

UploadRequests ==
    [kind : {"csv"},
     cols : {{"symbol", "quantity", "price"},
             {"symbol", "quantity", "price", "investment"}},
     rows : SeqsUpTo(CsvRows, MaxRows), unreadable : {FALSE}, pdf : {NoPdf}]
    \cup [kind : {"csv"},
          cols : {{"symbol", "quantity"}, {"quantity", "price", "investment"}},
          rows : {<<Row(AAPL, <<10, 0>>, <<1805, 1>>, <<7, 0>>)>>},
          unreadable : {FALSE}, pdf : {NoPdf}]
    \cup [kind : {"csv"}, cols : {{"symbol", "quantity", "price"}},
          rows : {<<>>}, unreadable : {TRUE}, pdf : {NoPdf}]
    \cup [kind : {"pdf"}, cols : {{}}, rows : {<<>>}, unreadable : {FALSE},
          pdf : SamplePdfs]
    \cup [kind : {"other"}, cols : {{}}, rows : {<<>>}, unreadable : {FALSE},
          pdf : {NoPdf}]

\* The uploads that run beside the read handlers
ConcRequests ==
    {[kind |-> "csv", cols |-> {"symbol", "quantity", "price"},
      rows |-> <<Row(MSFT, <<0, 0>>, <<420, 0>>, NaN),
                 Row(AAPL, <<10, 0>>, <<1805, 1>>, NaN)>>,
      unreadable |-> FALSE, pdf |-> NoPdf],
     [kind |-> "pdf", cols |-> {}, rows |-> <<>>, unreadable |-> FALSE,
      pdf |-> [unreadable |-> "no",
               textA |-> << <<<<"E","F"," ","5"," ","6">>>> >>,
               textB |-> <<>>]]}

\* Lines 243-255 for each request of the input sets
UploadFrames == [req \in UploadRequests \cup ConcRequests |-> UploadFrame(req)]

\* The sample.csv the service starts with
InitialRows ==
    <<Row(AAPL, <<10, 0>>, <<1805, 1>>, NaN),
      Row(MSFT, <<5, 0>>, <<420, 0>>, NaN)>>

\* Inputs of the snapshot canonicalizer
SnapRows ==
    {Row(sym, q, p, NaN) :
        sym \in {<<"A","B">>, <<"N","A">>, <<"N","U","L","L">>},
        q \in {<<1, 0>>, <<11, 0>>, <<15, 1>>},
        p \in {<<2, 0>>, <<12, 0>>}}

SnapInputs == [rows : SeqsUpTo(SnapRows, MaxRows), t : 0..MaxTime]

\* GET /snapshot at clock reading t when sample.csv holds the saved rows
SnapshotOf ==
    [in \in SnapInputs |->
        portfolio_snapshot(load_portfolio(ToCsv(in.rows)).rows, in.t)]

\* ------------------------------------------------------------------------
\* State
\* ------------------------------------------------------------------------
VARIABLES
    file,       \* the lines of sample.csv
    up,         \* the upload handler (one at a time: it runs on the event loop)
    rd,         \* a read handler running in the thread pool
    client,     \* whether GEMINI_API_KEY configured a client
    creds,      \* whether the Algorand key and address are configured
    pdf,        \* the document handed to parse_cas_pdf
    parsed,     \* its outcome
    snapIn,     \* the holdings saved as sample.csv and the clock reading
    snapOut     \* its outcome

vars == <<file, up, rd, client, creds, pdf, parsed, snapIn, snapOut>>

NoDf == [ok |-> FALSE, error |-> "", cols |-> {}, rows |-> <<>>]

\* The upload handler at rest: the kind of the last file, sample.csv as it
\* was when that request arrived, and the response it got
UpIdle(kind, before, resp) ==
    [pc |-> "idle", kind |-> kind, before |-> before, df |-> NoDf,
     content |-> <<>>, resp |-> resp]

NoExt == [fetch |-> "none", rows |-> 0, gen |-> "none", ledger |-> "none"]

NoLoad == [ok |-> FALSE, rows |-> <<>>]

\* A read handler at rest: the last request's kind and outcome, what its
\* external calls did, and the DataFrame its last load_portfolio() returned
RdIdle(kind, out, ext, df) ==
    [pc |-> "idle", kind |-> kind, out |-> out, ext |-> ext, df |-> df,
     first |-> NoLoad, pdata |-> Raised("")]

RdBlank == RdIdle("none", Raised(""), NoExt, NoLoad)

\* The service at rest on the initial sample.csv
ServerIdle ==
    /\ file = ToCsv(InitialRows)
    /\ up = UpIdle("none", ToCsv(InitialRows), NoResp)
    /\ rd = RdBlank

\* The environment (.env) configures each collaborator or not
ServerInit ==
    /\ ServerIdle
    /\ client \in BOOLEAN
    /\ creds \in BOOLEAN

Unconfigured ==
    /\ ServerIdle
    /\ client = FALSE
    /\ creds = FALSE

ParseIdle ==
    /\ pdf = NoPdf
    /\ parsed = [done |-> FALSE, out |-> parse_cas_pdf(NoPdf)]

SnapIdle ==
    /\ snapIn = [rows |-> <<>>, t |-> 0]
    /\ snapOut = [done |-> FALSE, out |-> portfolio_snapshot(<<>>, 0)]

Init == ServerInit /\ ParseIdle /\ SnapIdle

\* ------------------------------------------------------------------------
\* upload_portfolio (async def with no await inside: uploads do not overlap
\* each other; the read handlers run in worker threads beside it)
\* ------------------------------------------------------------------------
\* Lines 240-258: parse, select the columns, open sample.csv for writing
\* (which truncates it); or fail before touching the file.  The response of
\* a read that has returned is with its client by now.
Opened(kind, df) ==
    IF CanSave(df)
    THEN /\ file' = <<>>
         /\ up' = [pc |-> "writing", kind |-> kind, before |-> file,
                   df |-> df, content |-> ToCsv(df.rows), resp |-> NoResp]
    ELSE /\ file' = file
         /\ up' = UpIdle(kind, file,
                         Failed(IF df.ok THEN "KeyError" ELSE df.error))

UploadBegin(req) ==
    /\ up.pc = "idle"
    /\ Opened(req.kind, UploadFrames[req])
    /\ rd' = IF rd.pc = "idle" THEN RdBlank ELSE rd
    /\ UNCHANGED <<client, creds, pdf, parsed, snapIn, snapOut>>

\* to_csv flushes some more lines of the content
UploadFlush ==
    /\ up.pc = "writing"
    /\ \E n \in (Len(file) + 1)..(Len(up.content) - 1) :
           file' = SubSeq(up.content, 1, n)
    /\ UNCHANGED <<up, rd, client, creds, pdf, parsed, snapIn, snapOut>>

\* to_csv closes the file, then lines 260-273 build the response
UploadFinish ==
    /\ up.pc = "writing"
    /\ file' = up.content
    /\ up' = UpIdle(up.kind, up.before, UploadResponse(up.df))
    /\ UNCHANGED <<rd, client, creds, pdf, parsed, snapIn, snapOut>>

\* ------------------------------------------------------------------------
\* The read handlers (def: each runs in a worker thread)
\* ------------------------------------------------------------------------
Others == <<file, client, creds, pdf, parsed, snapIn, snapOut>>

\* The response of an upload that has returned is with its client by now
UpAfter == IF up.pc = "idle" THEN UpIdle("none", file, NoResp) ELSE up

FetchExt(df, fetch) ==
    IF ~df.ok THEN "none" ELSE IF fetch.ok THEN "ok" ELSE "fail"

\* The rows of the price matrix a fetch returned (0 if none did)
FetchRows(df, fetch) == IF df.ok /\ fetch.ok THEN fetch.n ELSE 0

\* GET /portfolio
Summary ==
    /\ rd.pc = "idle"
    /\ LET df == load_portfolio(file)
       IN  rd' = RdIdle("summary", portfolio_summary(df), NoExt, df)
    /\ up' = UpAfter
    /\ UNCHANGED Others

\* GET /risk
Risk ==
    /\ rd.pc = "idle"
    /\ \E fetch \in FetchOutcomes, emptyRaises \in BOOLEAN :
         LET df == load_portfolio(file)
         IN  rd' = RdIdle("risk", portfolio_risk(df, fetch, emptyRaises),
                          [NoExt EXCEPT !.fetch = FetchExt(df, fetch),
                                        !.rows = FetchRows(df, fetch)], df)
    /\ up' = UpAfter
    /\ UNCHANGED Others

\* GET /snapshot
Snapshot ==
    /\ rd.pc = "idle"
    /\ \E t \in 0..MaxTime :
         LET df == load_portfolio(file)
         IN  rd' = RdIdle("snapshot",
                          IF df.ok THEN Returned(portfolio_snapshot(df.rows, t))
                          ELSE Raised("EmptyDataError"),
                          NoExt, df)
    /\ up' = UpAfter
    /\ UNCHANGED Others

\* POST /snapshot/submit
submit_snapshot_to_algorand ==
    /\ rd.pc = "idle"
    /\ \E t \in 0..MaxTime, ledger \in {"ok", "fail"} :
         LET df == load_portfolio(file)
             snap == portfolio_snapshot(df.rows, t)
         IN  rd' = RdIdle("submit",
                          IF df.ok
                          THEN Returned(
                                 [snapshot |-> snap,
                                  algorand_submission |->
                                    submit_to_algorand(snap.snapshot_hash,
                                                       creds, ledger)])
                          ELSE Raised("EmptyDataError"),
                          [NoExt EXCEPT !.ledger =
                              IF ~df.ok THEN "none"
                              ELSE IF ~creds THEN "unconfigured" ELSE ledger],
                          df)
    /\ up' = UpAfter
    /\ UNCHANGED Others

\* GET /ai/insights, line 346: df = load_portfolio()
InsightsLoad ==
    /\ rd.pc = "idle"
    /\ LET df == load_portfolio(file)
       IN  IF df.ok
           THEN rd' = [RdIdle("insights", Raised(""), NoExt, df)
                          EXCEPT !.pc = "summary", !.first = df]
           ELSE rd' = RdIdle("insights", Raised("EmptyDataError"), NoExt, df)
    /\ up' = UpAfter
    /\ UNCHANGED Others

\* line 347: portfolio_data = portfolio_summary()
InsightsSummary ==
    /\ rd.pc = "summary"
    /\ LET df == load_portfolio(file)
           pdata == portfolio_summary(df)
       IN  IF pdata.status = "ok"
           THEN rd' = [rd EXCEPT !.pc = "risk", !.pdata = pdata, !.df = df]
           ELSE rd' = RdIdle("insights", pdata, NoExt, df)
    /\ up' = UpAfter
    /\ UNCHANGED Others

\* The explanation of lines 384-412: gen is the outcome of generate_content
Explanation(hasClient, gen) ==
    IF hasClient THEN (IF gen = "ok" THEN "generated" ELSE "fallback")
    ELSE "rule-based fallback"

\* lines 348-423: risk_data = portfolio_risk(), the explanation, the
\* response.  The record keeps what the response is computed from: the
\* first load (asset count and list), the summary and the risk metrics.
InsightsRisk ==
    /\ rd.pc = "risk"
    /\ \E fetch \in FetchOutcomes, emptyRaises \in BOOLEAN,
          gen \in {"ok", "fail"} :
         LET df == load_portfolio(file)
             risk == portfolio_risk(df, fetch, emptyRaises)
             ext == [fetch |-> FetchExt(df, fetch),
                     rows |-> FetchRows(df, fetch),
                     gen |-> IF risk.status = "ok" /\ client THEN gen
                             ELSE "none",
                     ledger |-> "none"]
         IN  rd' = RdIdle("insights",
                          IF risk.status = "ok"
                          THEN Returned(
                                 [status |-> "success",
                                  ai_powered |-> client,
                                  insights |-> Explanation(client, gen),
                                  total_assets |-> Len(rd.first.rows),
                                  assets |-> Symbols(rd.first.rows),
                                  allocation |-> rd.pdata.body.allocation,
                                  total_value |-> rd.pdata.body.total_value,
                                  risk |-> risk.body])
                          ELSE risk,
                          ext, df)
    /\ up' = UpAfter
    /\ UNCHANGED Others

\* ------------------------------------------------------------------------
\* parse_cas_pdf and portfolio_snapshot on their own inputs
\* ------------------------------------------------------------------------
ParsePdf ==
    /\ ~parsed.done
    /\ parsed' = [done |-> TRUE, out |-> parse_cas_pdf(pdf)]
    /\ UNCHANGED <<file, up, rd, client, creds, pdf, snapIn, snapOut>>

TakeSnapshot ==
    /\ ~snapOut.done
    /\ snapOut' = [done |-> TRUE, out |-> SnapshotOf[snapIn]]
    /\ UNCHANGED <<file, up, rd, client, creds, pdf, parsed, snapIn>>

\* ------------------------------------------------------------------------
\* Specifications
\* ------------------------------------------------------------------------
\* The service, one request at a time
Next ==
    \/ rd.pc = "idle" /\ \E req \in UploadRequests : UploadBegin(req)
    \/ UploadFlush
    \/ UploadFinish
    \/ up.pc = "idle" /\ Summary
    \/ up.pc = "idle" /\ Risk
    \/ up.pc = "idle" /\ Snapshot
    \/ up.pc = "idle" /\ submit_snapshot_to_algorand
    \/ up.pc = "idle" /\ InsightsLoad
    \/ InsightsSummary
    \/ InsightsRisk

Spec == Init /\ [][Next]_vars

\* The service with an upload running beside the read handlers
ConcNext ==
    \/ \E req \in ConcRequests : UploadBegin(req)
    \/ UploadFlush
    \/ UploadFinish
    \/ Summary
    \/ Risk
    \/ Snapshot
    \/ submit_snapshot_to_algorand
    \/ InsightsLoad
    \/ InsightsSummary
    \/ InsightsRisk

SpecConc == Init /\ [][ConcNext]_vars

\* parse_cas_pdf on every document of the bounded input set
ParseInit ==
    /\ Unconfigured
    /\ SnapIdle
    /\ pdf \in Pdfs
    /\ parsed = [done |-> FALSE, out |-> parse_cas_pdf(NoPdf)]

SpecParse == ParseInit /\ [][ParsePdf]_vars

\* portfolio_snapshot on every saved portfolio of the bounded input set
SnapInit ==
    /\ Unconfigured
    /\ ParseIdle
    /\ snapIn \in SnapInputs
    /\ snapOut = [done |-> FALSE, out |-> portfolio_snapshot(<<>>, 0)]

SpecSnapshot == SnapInit /\ [][TakeSnapshot]_vars

\* ------------------------------------------------------------------------
\* Properties
\* ------------------------------------------------------------------------
\* C1: upload is replace-on-success only.  When an upload has returned, a
\* failed one has left sample.csv exactly as it was before the upload, and a
\* successful one has left exactly the holdings it parsed and reported.
C1_ReplaceOnSuccessOnly ==
    up.pc = "idle" =>
        /\ (up.resp.status = "failed" => file = up.before)
        /\ (up.resp.status = "success" =>
                Records(load_portfolio(file).rows) = up.resp.assets)

\* C2: investment is always recomputed.  The total_investment a successful
\* tabular upload reports is the sum of quantity * price over its rows, also
\* when the file carried an investment column of its own.
C2_InvestmentRecomputed ==
    (up.pc = "idle" /\ up.kind = "csv" /\ up.resp.status = "success") =>
        up.resp.total_investment
            = FSum(Investments(WithInvestment(up.resp.assets)))

\* C3: the strategy chain.  Strategy B runs exactly when Strategy A found no
\* rows in the whole document; the output is A's rows if there are any,
\* otherwise B's rows if there are any, never both; and when both find none
\* the parser fails with the no-holdings error instead of an empty list.
C3_StrategyChain ==
    (parsed.done /\ pdf.unreadable # "A") =>
        /\ parsed.out.ranB <=> (StrategyA(pdf.textA) = <<>>)
        /\ (StrategyA(pdf.textA) # <<>> =>
                /\ parsed.out.ok
                /\ parsed.out.holdings = StrategyA(pdf.textA))
        /\ (parsed.out.error # "Failed to parse PDF" =>
                /\ (StrategyA(pdf.textA) = <<>> /\ StrategyB(pdf.textB) # <<>>
                        => /\ parsed.out.ok
                           /\ parsed.out.holdings = StrategyB(pdf.textB))
                /\ (StrategyA(pdf.textA) = <<>> /\ StrategyB(pdf.textB) = <<>>
                        => /\ ~parsed.out.ok
                           /\ parsed.out.error = "No holdings found in PDF"
                           /\ parsed.out.holdings = <<>>))
        /\ (parsed.out.ok => parsed.out.holdings # <<>>)

\* Strategy A found nothing and Strategy B's rows are the output
C3_FallbackWins ==
    /\ parsed.done
    /\ parsed.out.ok
    /\ parsed.out.ranB
    /\ StrategyA(pdf.textA) = <<>>
    /\ parsed.out.holdings = StrategyB(pdf.textB)
    /\ pdf.textA # <<>>

\* A symbol of the domain model: 1 to 5 uppercase letters
ValidSymbol(sym) ==
    /\ sym # NaN
    /\ Len(sym) >= 1
    /\ Len(sym) <= 5
    /\ \A i \in 1..Len(sym) : sym[i] \in UpperChars

NonNegative(x) == ~IsNaN(x) /\ x[1] >= 0

\* C4: whenever no upload is writing, every holding of the current
\* portfolio has an uppercase alphabetic symbol of 1 to 5 characters, a
\* non-negative quantity and a non-negative price.
C4_HoldingsValid ==
    up.pc = "idle" =>
        \A i \in 1..Len(load_portfolio(file).rows) :
            /\ ValidSymbol(load_portfolio(file).rows[i].symbol)
            /\ NonNegative(load_portfolio(file).rows[i].quantity)
            /\ NonNegative(load_portfolio(file).rows[i].price)

\* The fields of a holding in which r and q differ
Differing(r, q) ==
    {f \in {"symbol", "quantity", "price"} : r[f] # q[f]}

\* b is a with the timestamp changed, or with one symbol, quantity or price
\* of one holding changed, or with two different holdings exchanged
SingleChange(a, b) ==
    \/ a.rows = b.rows /\ a.t # b.t
    \/ /\ a.t = b.t
       /\ Len(a.rows) = Len(b.rows)
       /\ \E i \in 1..Len(a.rows) :
            /\ Cardinality(Differing(a.rows[i], b.rows[i])) = 1
            /\ \A j \in 1..Len(a.rows) : j # i => a.rows[j] = b.rows[j]
    \/ /\ a.t = b.t
       /\ a.rows # b.rows
       /\ \E i, j \in 1..Len(a.rows) :
            b.rows = [a.rows EXCEPT ![i] = a.rows[j], ![j] = a.rows[i]]

\* C5: the snapshot digest is a pure function of the ordered holdings and
\* the timestamp.  The snapshot taken equals the one computed again from the
\* same holdings and timestamp, and every portfolio that differs in the
\* timestamp, in one symbol, quantity or price, or in the order of the
\* holdings has another serialized form and another digest.
C5_DigestPureInjective ==
    snapOut.done =>
        /\ snapOut.out = SnapshotOf[snapIn]
        /\ \A other \in SnapInputs :
             SingleChange(snapIn, other) =>
                /\ SnapshotOf[other].note_field # snapOut.out.note_field
                /\ SnapshotOf[other].snapshot_hash
                       # snapOut.out.snapshot_hash

\* C6: when the current portfolio has holdings and its total_value is 0,
\* the summary and the risk calculation (its price fetch having returned)
\* end in the explicit insufficient-data error: they return neither NaN
\* weights nor an ordinary result.
C6_ZeroTotalSignalled ==
    (/\ rd.pc = "idle"
     /\ rd.kind \in {"summary", "risk"}
     /\ rd.df.ok
     /\ rd.df.rows # <<>>
     /\ FIsZero(FSum(Investments(rd.df.rows)))
     /\ rd.ext.fetch # "fail") =>
        /\ rd.out.status = "exception"
        /\ rd.out.error = "InsufficientHistoryError"

\* C7: when the price matrix has zero or one row, the risk calculation ends
\* in the explicit insufficient-history error: it neither raises another
\* exception nor returns a profile with NaN metrics.
C7_InsufficientHistorySignalled ==
    (/\ rd.pc = "idle"
     /\ rd.kind = "risk"
     /\ rd.ext.fetch = "ok"
     /\ rd.ext.rows <= 1) =>
        /\ rd.out.status = "exception"
        /\ rd.out.error = "InsufficientHistoryError"

\* C8: a failed collaborator call gives a degraded but valid response.  A
\* failed text generation gives the fallback explanation; a failed or
\* unconfigured ledger gives a response with a simulated ledger identifier;
\* a failed market-data fetch lets no exception escape the request.
C8_ExternalFailuresDegraded ==
    rd.pc = "idle" =>
        /\ (rd.kind = "insights" /\ rd.ext.gen = "fail" =>
                /\ rd.out.status = "ok"
                /\ rd.out.body.insights = "fallback")
        /\ (rd.kind = "submit" /\ rd.ext.ledger \in {"fail", "unconfigured"} =>
                /\ rd.out.status = "ok"
                /\ rd.out.body.algorand_submission.simulated_tx_id # <<>>)
        /\ (rd.kind \in {"risk", "insights"} /\ rd.ext.fetch = "fail" =>
                rd.out.status = "ok")

\* The committed contents of sample.csv: while an upload is writing, the
\* content before it and the content it is writing
Committed == IF up.pc = "writing" THEN {up.before, up.content} ELSE {file}

\* C9: a summary, risk or snapshot request that runs beside an upload loads
\* exactly the previously committed portfolio or exactly the newly uploaded
\* one, never a partially written or empty file.
C9_ReadSeesOldOrNew ==
    [][(rd' # rd /\ rd'.kind \in {"summary", "risk", "snapshot"}) =>
          \E f \in Committed : rd'.df = load_portfolio(f)]_vars

\* The positions of a line where the first pattern matches
MatchStarts(line) == {i \in 1..Len(line) : Match1At(line, i) # <<>>}

\* The leftmost match of the first pattern in a line that has one
LeftmostMatch(line) ==
    Match1At(line, CHOOSE i \in MatchStarts(line) :
                       \A j \in MatchStarts(line) : i <= j)

\* The line has at least 3 pipe-separated fields, the first purely
\* alphabetic with at most 5 characters, the second and third numbers
PipeHolding(line) ==
    /\ Len(Split(line)) >= 3
    /\ IsAlpha(Strip(Split(line)[1]))
    /\ Len(Strip(Split(line)[1])) <= 5
    /\ Float(Split(line)[2]) # ValueError
    /\ Float(Split(line)[3]) # ValueError

\* What one line contributes, in the order the decisions are stated
ClaimLine(line) ==
    IF \/ Strip(line) = <<>>
       \/ Contains(Lower(line), <<"s","y","m","b","o","l">>)
       \/ Contains(Lower(line), <<"i","s","i","n">>)
    THEN <<>>
    ELSE IF MatchStarts(line) # {}
    THEN <<Holding(LeftmostMatch(line)[1], Float(LeftmostMatch(line)[2]),
                   Float(LeftmostMatch(line)[3]))>>
    ELSE IF PipeHolding(line)
    THEN <<Holding(Strip(Split(line)[1]), Float(Split(line)[2]),
                   Float(Split(line)[3]))>>
    ELSE <<>>

RECURSIVE Concat(_)
Concat(seqs) ==
    IF seqs = <<>> THEN <<>> ELSE Head(seqs) \o Concat(Tail(seqs))

\* The contributions of all lines, in page order then line order
ClaimDoc(pages) ==
    Concat([p \in 1..Len(pages) |->
               Concat([l \in 1..Len(pages[p]) |-> ClaimLine(pages[p][l])])])

\* C10: in Strategy A every line contributes at most one holding, decided
\* in a fixed order: none for a blank line or one containing "symbol" or
\* "isin" in any case; otherwise the first match of pattern 1, pattern 2
\* then not being tried; otherwise the pipe-separated holding if the line
\* has at least 3 fields, an alphabetic first field of at most 5 characters
\* and numbers in fields 2 and 3.  The holdings are output in page order,
\* then line order.
C10_StrategyAPerLine ==
    (parsed.done /\ pdf.unreadable # "A") =>
        /\ \A p \in 1..Len(pdf.textA) : \A l \in 1..Len(pdf.textA[p]) :
               Len(LineA(pdf.textA[p][l])) <= 1
        /\ (~parsed.out.ranB => parsed.out.holdings = ClaimDoc(pdf.textA))
        /\ (parsed.out.ranB => ClaimDoc(pdf.textA) = <<>>)

\* A two-page document with two contributing lines a page, of both patterns
C10_TwoPagesBothPatterns ==
    /\ parsed.done
    /\ parsed.out.ok
    /\ ~parsed.out.ranB
    /\ Len(pdf.textA) = 2
    /\ Len(parsed.out.holdings) = 4
    /\ parsed.out.holdings[1].symbol = <<"c","d">>
    /\ parsed.out.holdings[2].symbol = <<"A","B">>
    /\ parsed.out.holdings[3].symbol = <<"A","B">>

\* The symbols of an allocation list, in order
AllocationSymbols(allocation) ==
    [i \in 1..Len(allocation) |-> allocation[i].symbol]

\* The insights response is computed from the one portfolio its risk
\* metrics were computed from
InsightsFromOneVersion ==
    (rd.pc = "idle" /\ rd.kind = "insights" /\ rd.out.status = "ok") =>
        /\ rd.out.body.total_assets = Len(rd.df.rows)
        /\ rd.out.body.assets = Symbols(rd.df.rows)
        /\ rd.out.body.total_assets = Len(rd.out.body.allocation)
        /\ rd.out.body.assets = AllocationSymbols(rd.out.body.allocation)
        /\ rd.out.body.allocation = portfolio_summary(rd.df).body.allocation
        /\ rd.out.body.total_value = portfolio_summary(rd.df).body.total_value

\* What the snapshot-submit response sends to the ledger describes the
\* portfolio of the snapshot it returns
SubmitFromOneVersion ==
    (rd.pc = "idle" /\ rd.kind = "submit" /\ rd.out.status = "ok") =>
        /\ rd.out.body.snapshot.num_holdings = Len(rd.df.rows)
        /\ rd.out.body.snapshot.holdings = Symbols(rd.df.rows)
        /\ rd.out.body.snapshot.total_value = FSum(Investments(rd.df.rows))
        /\ \E t \in 0..MaxTime :
               rd.out.body.snapshot = portfolio_snapshot(rd.df.rows, t)
        /\ (rd.out.body.algorand_submission.status = "simulation" =>
                rd.out.body.algorand_submission.simulated_tx_id
                    = <<"SIM", rd.out.body.snapshot.snapshot_hash>>)

\* C11: every composite response is computed from one version of the
\* current portfolio, also when uploads interleave with the request.  In an
\* insights response the asset count and list, the allocation weights and
\* the risk metrics derive from the same portfolio; in a snapshot-submit
\* response the digest, total_value and num_holdings sent to the ledger
\* describe the portfolio of the returned snapshot.
C11_OneVersionPerResponse == InsightsFromOneVersion /\ SubmitFromOneVersion

====
